---- MODULE Spec2Model ----
(***************************************************************************)
(* A model of the PMPS user interface's preemptive-requests table          *)
(* (src/preemptive_requests.py) and of its tooltip builders                *)
(* (src/tooltips.py).                                                      *)
(*                                                                         *)
(* Four specifications share the module's variables:                       *)
(*   SpecRange    get_ev_range_tooltip, one loop iteration per step        *)
(*   SpecBitmask  get_tooltip_for_bc_bitmask, one loop iteration per step  *)
(*   SpecBuild    PreemptiveRequests.setup_ui over a set of configurations *)
(*   Spec         the running display: value and connection callbacks,     *)
(*                the filter check boxes and the sort controls             *)
(***************************************************************************)
EXTENDS Integers, Sequences, FiniteSets, TLC

(***************************************************************************)
(* Bounds of the model.                                                    *)
(***************************************************************************)
\* longest range_def handed to get_ev_range_tooltip
MaxLen == 3
\* largest boundary value of a range_def
MaxEv == 10
\* largest bitmask handed to get_tooltip_for_bc_bitmask
MaxBcMask == 40

(***************************************************************************)
(* Text.  Python's str is modelled as a sequence of one-character strings, *)
(* so that str(), int(), float() and zfill() are computed, not assumed.    *)
(***************************************************************************)
DigitChars == <<"0", "1", "2", "3", "4", "5", "6", "7", "8", "9">>

RECURSIVE NatStr(_)
NatStr(n) ==
    IF n < 10 THEN <<DigitChars[n + 1]>>
    ELSE NatStr(n \div 10) \o <<DigitChars[(n % 10) + 1]>>

\* str(n) of a Python int
IntStr(n) == IF n < 0 THEN <<"-">> \o NatStr(0 - n) ELSE NatStr(n)

DigitOf == [c \in {DigitChars[d] : d \in 1..10} |->
               (CHOOSE d \in 1..10 : DigitChars[d] = c) - 1]

DigitVal(c) == DigitOf[c]

RECURSIVE DigitsVal(_, _, _)
\* the digits of t from position i on, read after a number `read`
DigitsVal(t, i, read) ==
    IF i > Len(t) THEN read ELSE DigitsVal(t, i + 1, 10 * read + DigitVal(t[i]))

NatVal(t) == DigitsVal(t, 1, 0)

\* int(text) of a decimal text
IntVal(t) == IF t[1] = "-" THEN 0 - NatVal(Tail(t)) ELSE NatVal(t)

RECURSIVE Spaces(_)
Spaces(n) == IF n <= 0 THEN <<>> ELSE <<" ">> \o Spaces(n - 1)

\* f'{value:{width}}' of an int: right-aligned in a field of `width`
PadLeft(t, width) == Spaces(width - Len(t)) \o t

Max(a, b) == IF a >= b THEN a ELSE b

\* bit `k` of a Python int: (bitmask >> k) % 2
Bit(mask, k) == (mask \div (2 ^ k)) % 2

\* Python's None where a tuple is expected
NoBound == <<>>

(***************************************************************************)
(* get_ev_range_tooltip (src/tooltips.py)                                  *)
(***************************************************************************)
VARIABLES ev_bitmask, range_def, bit, ok_bounds, bad_bounds,
          curr_ok_bound, curr_bad_bound, prev, lines, tooltip, ev_pc

evVars == <<ev_bitmask, range_def, bit, ok_bounds, bad_bounds,
            curr_ok_bound, curr_bad_bound, prev, lines, tooltip, ev_pc>>

\* a mutant: every band opens an interval of its own
ExtendBoundNoMerge(curr, lower, ev) == <<lower, ev>>

\* lines 26-29 and 34-37: open an interval at `lower`, or move the open one's end
ExtendBound(curr, lower, ev) ==
    IF curr = NoBound THEN <<lower, ev>> ELSE <<curr[1], ev>>

\* lines 30-32 and 38-40: the other kind's open interval is closed
CloseBound(bounds, curr) ==
    IF curr # NoBound THEN Append(bounds, curr) ELSE bounds

\* a mutant: "fewer wins, ties show the allowed ranges"
ShowAllowedOnTies(ok, bad) == Len(ok) <= Len(bad)

\* line 51: the test that picks the allowed ranges for display
ShowAllowed(ok, bad) ==
    bad = <<>> \/ (ok # <<>> /\ Len(ok) < Len(bad))

RECURSIVE LeftWidth(_)
LeftWidth(bounds) ==
    IF bounds = <<>> THEN 0
    ELSE Max(LeftWidth(Tail(bounds)), Len(IntStr(Head(bounds)[1])))

RECURSIVE RightWidth(_)
RightWidth(bounds) ==
    IF bounds = <<>> THEN 0
    ELSE Max(RightWidth(Tail(bounds)), Len(IntStr(Head(bounds)[2])))

\* lines 56 and 63: one line of the tooltip
FormatLine(word, bound, left_width, right_width) ==
    word \o <<" ">> \o PadLeft(IntStr(bound[1]), left_width)
         \o <<" ", "e", "V", " ", "t", "o", " ">>
         \o PadLeft(IntStr(bound[2]), right_width) \o <<" ", "e", "V">>

AllowWord == <<"A", "l", "l", "o", "w">>
BlockWord == <<"B", "l", "o", "c", "k">>

FormatLines(word, bounds) ==
    [i \in 1..Len(bounds) |->
        FormatLine(word, bounds[i], LeftWidth(bounds), RightWidth(bounds))]

RECURSIVE JoinLines(_)
\* '\n'.join(lines)
JoinLines(ls) ==
    IF ls = <<>> THEN <<>>
    ELSE IF Len(ls) = 1 THEN ls[1]
    ELSE ls[1] \o <<"\n">> \o JoinLines(Tail(ls))

\* preformatted(text)
Preformatted(text) == <<"<pre>">> \o text \o <<"</pre>">>

RECURSIVE IncreasingSeqs(_, _)
\* the increasing sequences of at most `n` values, each above `lo`
IncreasingSeqs(lo, n) ==
    IF n = 0 THEN {<<>>}
    ELSE {<<>>} \cup
         UNION {{<<v>> \o s : s \in IncreasingSeqs(v, n - 1)} : v \in (lo + 1)..MaxEv}

EvIdle ==
    /\ ev_bitmask = 0 /\ range_def = <<>> /\ bit = 0
    /\ ok_bounds = <<>> /\ bad_bounds = <<>>
    /\ curr_ok_bound = NoBound /\ curr_bad_bound = NoBound
    /\ prev = 0 /\ lines = <<>> /\ tooltip = <<>> /\ ev_pc = "idle"

\* lines 14-20: the call and its locals
EvInit ==
    /\ ev_bitmask \in (0 - 2 ^ (MaxLen + 1))..(2 ^ (MaxLen + 1) - 1)
    /\ range_def \in IncreasingSeqs(0, MaxLen)
    /\ bit = 0
    /\ ok_bounds = <<>> /\ bad_bounds = <<>>
    /\ curr_ok_bound = NoBound /\ curr_bad_bound = NoBound
    /\ prev = 0 /\ lines = <<>> /\ tooltip = <<>> /\ ev_pc = "loop"

\* lines 22-32, 41: an iteration whose band is allowed
EvLoopOk ==
    /\ ev_pc = "loop" /\ bit < Len(range_def)
    /\ Bit(ev_bitmask, bit) = 1
    /\ curr_ok_bound' = ExtendBound(curr_ok_bound, prev, range_def[bit + 1])
    /\ bad_bounds' = CloseBound(bad_bounds, curr_bad_bound)
    /\ curr_bad_bound' = NoBound
    /\ prev' = range_def[bit + 1]
    /\ bit' = bit + 1
    /\ UNCHANGED <<ev_bitmask, range_def, ok_bounds, lines, tooltip, ev_pc>>

\* lines 22-24, 33-41: an iteration whose band is blocked
EvLoopBad ==
    /\ ev_pc = "loop" /\ bit < Len(range_def)
    /\ Bit(ev_bitmask, bit) = 0
    /\ curr_bad_bound' = ExtendBound(curr_bad_bound, prev, range_def[bit + 1])
    /\ ok_bounds' = CloseBound(ok_bounds, curr_ok_bound)
    /\ curr_ok_bound' = NoBound
    /\ prev' = range_def[bit + 1]
    /\ bit' = bit + 1
    /\ UNCHANGED <<ev_bitmask, range_def, bad_bounds, lines, tooltip, ev_pc>>

\* lines 43-46: the loop is over, the open intervals are closed
EvFlush ==
    /\ ev_pc = "loop" /\ bit = Len(range_def)
    /\ ok_bounds' = CloseBound(ok_bounds, curr_ok_bound)
    /\ bad_bounds' = CloseBound(bad_bounds, curr_bad_bound)
    /\ ev_pc' = "render"
    /\ UNCHANGED <<ev_bitmask, range_def, bit, curr_ok_bound, curr_bad_bound,
                   prev, lines, tooltip>>

\* lines 48-57, 65: the allowed ranges are shown
EvRenderAllow ==
    /\ ev_pc = "render"
    /\ ShowAllowed(ok_bounds, bad_bounds)
    /\ lines' = FormatLines(AllowWord, ok_bounds)
    /\ tooltip' = Preformatted(JoinLines(lines'))
    /\ ev_pc' = "done"
    /\ UNCHANGED <<ev_bitmask, range_def, bit, ok_bounds, bad_bounds,
                   curr_ok_bound, curr_bad_bound, prev>>

\* lines 48-51, 58-65: the blocked ranges are shown
EvRenderBlock ==
    /\ ev_pc = "render"
    /\ ~ShowAllowed(ok_bounds, bad_bounds)
    /\ lines' = FormatLines(BlockWord, bad_bounds)
    /\ tooltip' = Preformatted(JoinLines(lines'))
    /\ ev_pc' = "done"
    /\ UNCHANGED <<ev_bitmask, range_def, bit, ok_bounds, bad_bounds,
                   curr_ok_bound, curr_bad_bound, prev>>

(***************************************************************************)
(* get_tooltip_for_bc_bitmask (src/tooltips.py)                            *)
(***************************************************************************)
VARIABLES bc_bitmask, bitmask, count, bc_table, bc_pc

bcVars == <<bc_bitmask, bitmask, count, bc_table, bc_pc>>

\* get_table_row(beamclass): the row of the beam class table, kept by its class
GetTableRow(beamclass) == [beamclass |-> beamclass]

\* a mutant: the row of bit k is the row of class k
AddBitRowOffByOne(table, n) == Append(table, GetTableRow(n - 1))

\* line 89: table.add_row(get_table_row(count))
AddBitRow(table, n) == Append(table, GetTableRow(n))

BcIdle ==
    /\ bc_bitmask = 0 /\ bitmask = 0 /\ count = 0
    /\ bc_table = <<>> /\ bc_pc = "idle"

\* line 78: the call
BcInit ==
    /\ bc_bitmask \in 0..MaxBcMask
    /\ bitmask = bc_bitmask
    /\ count = 0
    /\ bc_table = <<>>
    /\ bc_pc = "start"

\* lines 82-85: the table starts with the row of class 0
BcStart ==
    /\ bc_pc = "start"
    /\ bc_table' = Append(bc_table, GetTableRow(0))
    /\ count' = 0
    /\ bc_pc' = "loop"
    /\ UNCHANGED <<bc_bitmask, bitmask>>

\* lines 86-90: an iteration whose low bit is set
BcLoopSet ==
    /\ bc_pc = "loop" /\ bitmask > 0
    /\ bitmask % 2 = 1
    /\ count' = count + 1
    /\ bc_table' = AddBitRow(bc_table, count')
    /\ bitmask' = bitmask \div 2
    /\ UNCHANGED <<bc_bitmask, bc_pc>>

\* lines 86-88, 90: an iteration whose low bit is clear
BcLoopClear ==
    /\ bc_pc = "loop" /\ bitmask > 0
    /\ bitmask % 2 = 0
    /\ count' = count + 1
    /\ bitmask' = bitmask \div 2
    /\ UNCHANGED <<bc_bitmask, bc_table, bc_pc>>

\* lines 86, 91: the loop is over
BcReturn ==
    /\ bc_pc = "loop" /\ ~(bitmask > 0)
    /\ bc_pc' = "done"
    /\ UNCHANGED <<bc_bitmask, bitmask, count, bc_table>>

(***************************************************************************)
(* PMPSTableWidgetItem and its conversions (src/preemptive_requests.py)    *)
(*                                                                         *)
(* A float is kept in tenths (10 stands for 1.0), an EPICS char waveform   *)
(* is a sequence of character codes, and a 32-bit mask is an integer of    *)
(* -2^31 .. 2^31-1.                                                        *)
(***************************************************************************)
\* Python's None, and a value x that is not None
None == <<>>
Some(x) == <<x>>

\* the characters of the model's texts, in code point order
OrdChars == <<"-", ".", "0", "1", "2", "3", "4", "5", "6", "7", "8", "9",
              "A", "B", "C">>

Ord(c) == CHOOSE i \in 1..Len(OrdChars) : OrdChars[i] = c

\* chr(num) for the codes of "A", "B" and "C"
Chr(num) == OrdChars[num - 52]

RECURSIVE StrLess(_, _)
\* a < b of two Python str
StrLess(a, b) ==
    IF b = <<>> THEN FALSE
    ELSE IF a = <<>> THEN TRUE
    ELSE IF a[1] # b[1] THEN Ord(a[1]) < Ord(b[1])
    ELSE StrLess(Tail(a), Tail(b))

\* str(float(value)), the value in tenths
FloatStr(tenths) ==
    IF tenths < 0
    THEN <<"-">> \o NatStr((0 - tenths) \div 10) \o <<".">> \o NatStr((0 - tenths) % 10)
    ELSE NatStr(tenths \div 10) \o <<".">> \o NatStr(tenths % 10)

\* where the "." of a float's text is
DotAt(t) == CHOOSE i \in 1..Len(t) : t[i] = "."

\* float(text), in tenths
FloatVal(t) ==
    LET dot == DotAt(t)
        whole == IntVal(SubSeq(t, 1, dot - 1))
        frac == NatVal(SubSeq(t, dot + 1, Len(t)))
    IN  IF t[1] = "-" THEN 10 * whole - frac ELSE 10 * whole + frac

RECURSIVE HighBits(_)
\* lines 96-100: the loop of bitmask_count
HighBits(mask) ==
    IF mask > 0 THEN (mask % 2) + HighBits(mask \div 2) ELSE 0

\* lines 90-100.  mask + 2**32 of a negative mask is 2^31 + (mask + 2^31):
\* bit 31 and the bits of mask + 2^31, a number that fits the model's integers.
bitmask_count(mask) ==
    IF mask < 0 THEN 1 + HighBits((mask + 2147483647) + 1) ELSE HighBits(mask)

RECURSIVE str_from_waveform(_)
\* lines 103-110
str_from_waveform(waveform_array) ==
    IF waveform_array = <<>> THEN <<>>
    ELSE IF Head(waveform_array) = 0 THEN <<>>
    ELSE <<Chr(Head(waveform_array))>> \o str_from_waveform(Tail(waveform_array))

\* lines 127-191; default is str(default), as line 44 stores it
item_info_list == <<
    [name |-> "name", store_type |-> "str_from_waveform", data_type |-> "str",
     default |-> <<>>],
    [name |-> "id", store_type |-> "int", data_type |-> "int",
     default |-> IntStr(0)],
    [name |-> "rate", store_type |-> "int", data_type |-> "int",
     default |-> IntStr(0)],
    [name |-> "trans", store_type |-> "float", data_type |-> "float",
     default |-> FloatStr(0)],
    [name |-> "energy", store_type |-> "bitmask_count", data_type |-> "int",
     default |-> IntStr(0)],
    [name |-> "cohort", store_type |-> "int", data_type |-> "int",
     default |-> IntStr(0)],
    [name |-> "active", store_type |-> "int", data_type |-> "int",
     default |-> IntStr(0)] >>

\* line 226
ncols == Len(item_info_list) + 2

\* lines 261-265 and 275-280: the store_type and data_type of a column's items
StoreTypeOf(column) ==
    IF column = 1 THEN "int" ELSE item_info_list[column - 1].store_type

DataTypeOf(column) ==
    IF column = 1 THEN "int" ELSE item_info_list[column - 1].data_type

\* line 73: str(self.store_type(value))
StoredText(store_type, value) ==
    CASE store_type = "int" -> IntStr(value)
      [] store_type = "float" -> FloatStr(value)
      [] store_type = "bitmask_count" -> IntStr(bitmask_count(value))
      [] store_type = "str_from_waveform" -> str_from_waveform(value)

\* lines 81-83: self.data_type(self.text())
get_value(data_type, text) ==
    CASE data_type = "int" -> IntVal(text)
      [] data_type = "float" -> FloatVal(text)
      [] data_type = "str" -> text

\* a mutant: the items compare as the texts they hold
TextLess(data_type, a, b) == StrLess(a.text, b.text)

\* lines 85-87: __lt__
ItemLess(data_type, a, b) ==
    IF data_type = "str"
    THEN StrLess(get_value(data_type, a.text), get_value(data_type, b.text))
    ELSE get_value(data_type, a.text) < get_value(data_type, b.text)

\* lines 39-46: a new item; no channel has connected yet
NewItem(default) == [text |-> default, connected |-> FALSE]

(***************************************************************************)
(* PreemptiveRequests (src/preemptive_requests.py)                         *)
(*                                                                         *)
(* The table is the sequence of its rows, top to bottom; row `row` of the  *)
(* code is table[row + 1].  A row holds its widget (column 0), its items   *)
(* (columns 1 .. ncols-1) and whether the view hides it.                   *)
(***************************************************************************)
VARIABLES config, table, row_count, error, ui_pc,
          full_beam, inactive, disconnected, auto_update,
          sort_choices, order_choice, called

uiVars == <<config, table, row_count, error, ui_pc,
            full_beam, inactive, disconnected, auto_update,
            sort_choices, order_choice, called>>

\* `called` is a history variable: the method the last step ran, the
\* insertion index of the row it was run for (None when it is for no one row)
\* and whether gui_table_sort ran in it
Call(name, row, sorted) == [name |-> name, row |-> row, sorted |-> sorted]

\* str(pool_id).zfill(width)
RECURSIVE ZFill(_, _)
ZFill(t, width) == IF Len(t) >= width THEN t ELSE ZFill(<<"0">> \o t, width)

\* lines 245-282: the row of one pool id
NewRow(n, prefix, arbiter, pool) ==
    [widget |-> [index |-> n, P |-> prefix, ARBITER |-> arbiter, POOL |-> pool],
     item |-> [column \in 1..(ncols - 1) |->
                  IF column = 1 THEN NewItem(IntStr(n))
                  ELSE NewItem(item_info_list[column - 1].default)],
     hidden |-> FALSE]

RECURSIVE PoolRows(_, _, _, _)
\* lines 244-284: for pool_id in range(pool_id, pool_end + 1)
PoolRows(req, pool_id, rows, n) ==
    IF pool_id > req.assertion_pool_end[1] THEN [table |-> rows, count |-> n]
    ELSE PoolRows(req, pool_id + 1,
             Append(rows, NewRow(n, req.prefix, req.arbiter_instance,
                 ZFill(IntStr(pool_id), Len(IntStr(req.assertion_pool_end[1])) + 1))),
             n + 1)

\* lines 236-284: the rows of one group, whose pool range is given
GroupRows(req, rows, n) ==
    PoolRows(req, req.assertion_pool_start[1], rows, n)

\* line 244: range(None, ...) and None + 1 raise TypeError
RangeRaises(req) ==
    req.assertion_pool_start = None \/ req.assertion_pool_end = None

RECURSIVE RequestRows(_, _, _)
\* lines 234-284: for req in reqs
RequestRows(reqs, rows, n) ==
    IF reqs = <<>> THEN [table |-> rows, count |-> n, error |-> ""]
    ELSE IF RangeRaises(Head(reqs))
         THEN [table |-> rows, count |-> n, error |-> "TypeError"]
    ELSE LET done == GroupRows(Head(reqs), rows, n)
         IN  RequestRows(Tail(reqs), done.table, done.count)

\* lines 219-223: not self.config, or no 'preemptive_requests' in it
NoRequests(cfg) == ~cfg.given \/ cfg.preemptive_requests = <<>>

\* the (info, column) pairs of line 377: zip(item_info_list, range(2, columnCount))
ZipLength(column_count) ==
    IF Len(item_info_list) <= column_count - 2 THEN Len(item_info_list)
    ELSE Max(column_count - 2, 0)

\* the names line 377 goes through, and where each is in item_info_list
ZipNames == {item_info_list[i].name : i \in 1..ZipLength(ncols)}

ZipIndex ==
    [name \in ZipNames |->
        CHOOSE i \in 1..ZipLength(ncols) : item_info_list[i].name = name]

\* lines 377-379: values[info.name] = item.get_value()
Values(row) ==
    [name \in ZipNames |->
        get_value(item_info_list[ZipIndex[name]].data_type,
                  row.item[ZipIndex[name] + 1].text)]

\* a mutant: a rate of exactly 120 is not yet full beam
FullBeamAbove(values) ==
    values["rate"] > 120 /\ values["trans"] >= 10 /\ values["energy"] >= 32

\* lines 381-385; values['trans'] >= 1 is in tenths
FullBeam(values) ==
    values["rate"] >= 120 /\ values["trans"] >= 10 /\ values["energy"] >= 32

\* a mutant: a row is connected when all of its items are
AllConnected(row) == \A column \in 2..(ncols - 1) : row.item[column].connected

\* line 387: `item` is what the loop of line 377 left: the last column's item
Connected(row) == row.item[ZipLength(ncols) + 1].connected

\* lines 381-397
Hide(row, hide_full_beam, hide_inactive, hide_disconnected) ==
    LET values == Values(row)
        active == values["active"] # 0
        connected == Connected(row)
    IN  \/ hide_full_beam /\ FullBeam(values)
        \/ hide_inactive /\ ~active
        \/ hide_disconnected /\ ~connected

\* lines 356-402: update_filter(row), `pos` being row + 1
update_filter(tbl, pos, hide_full_beam, hide_inactive, hide_disconnected) ==
    [tbl EXCEPT ![pos].hidden =
        Hide(tbl[pos], hide_full_beam, hide_inactive, hide_disconnected)]

RECURSIVE FilterRows(_, _, _, _, _, _)
FilterRows(tbl, pos, last, hide_full_beam, hide_inactive, hide_disconnected) ==
    IF pos > last THEN tbl
    ELSE FilterRows(
             update_filter(tbl, pos, hide_full_beam, hide_inactive, hide_disconnected),
             pos + 1, last, hide_full_beam, hide_inactive, hide_disconnected)

\* lines 405-408: for row in range(self.row_count)
update_all_filters(tbl, rows, hide_full_beam, hide_inactive, hide_disconnected) ==
    FilterRows(tbl, 1, rows, hide_full_beam, hide_inactive, hide_disconnected)

\* QTableWidget.sortItems compares with __lt__, the arguments swapped for
\* DescendingOrder
Before(column, ascending, a, b) ==
    IF ascending THEN ItemLess(DataTypeOf(column), a.item[column], b.item[column])
    ELSE ItemLess(DataTypeOf(column), b.item[column], a.item[column])

RECURSIVE InsertRow(_, _, _, _)
\* `row` goes in front of the first row it is Before, behind its equals
InsertRow(sorted, row, column, ascending) ==
    IF sorted = <<>> THEN <<row>>
    ELSE IF Before(column, ascending, row, Head(sorted))
         THEN <<row>> \o sorted
    ELSE <<Head(sorted)>> \o InsertRow(Tail(sorted), row, column, ascending)

RECURSIVE SortRows(_, _, _, _)
SortRows(sorted, rest, column, ascending) ==
    IF rest = <<>> THEN sorted
    ELSE SortRows(InsertRow(sorted, Head(rest), column, ascending), Tail(rest),
                  column, ascending)

\* a mutant: 'Unsorted' always sorts upwards
SortUnsortedUp(tbl, column, ascending) ==
    SortRows(<<>>, tbl, column, ascending \/ column = 1)

\* lines 305-321: sortItems(column, order); Qt's sort is a stable sort of the
\* rows, each row moving as a whole
sort_table(tbl, column, ascending) == SortRows(<<>>, tbl, column, ascending)

\* lines 342-354
gui_table_sort(tbl, sort_index, order_index) ==
    sort_table(tbl, sort_index + 1, order_index = 0)

\* lines 323-340, with the check boxes and combo boxes as they stand
handle_item_changed(tbl, pos) ==
    LET shown == update_filter(tbl, pos, full_beam, inactive, disconnected)
    IN  IF auto_update THEN gui_table_sort(shown, sort_choices, order_choice)
        ELSE shown

\* a mutant: a connection change also empties the item
update_connection_clears(item, connected) ==
    [item EXCEPT !.connected = connected, !.text = IntStr(0)]

\* lines 75-79
update_connection(item, connected) == [item EXCEPT !.connected = connected]

\* lines 62-73
update_value(item, store_type, value) ==
    [item EXCEPT !.text = StoredText(store_type, value)]

UiIdle ==
    /\ config = [given |-> FALSE, preemptive_requests |-> <<>>]
    /\ table = <<>> /\ row_count = None /\ error = "" /\ ui_pc = "idle"
    /\ full_beam = TRUE /\ inactive = TRUE /\ disconnected = TRUE
    /\ auto_update = FALSE /\ sort_choices = 0 /\ order_choice = 0
    /\ called = Call("none", None, FALSE)

\* lines 206-210: a new display; the filters are all checked at the start
\* (lines 363-364), the combo boxes show their first entries
NewDisplay(cfg) ==
    /\ config = cfg
    /\ table = <<>> /\ row_count = None /\ error = "" /\ ui_pc = "new"
    /\ full_beam = TRUE /\ inactive = TRUE /\ disconnected = TRUE
    /\ auto_update = FALSE /\ sort_choices = 0 /\ order_choice = 0
    /\ called = Call("__init__", None, FALSE)

\* lines 217-223: setup_requests returns before it builds anything
SetupRequestsSkip ==
    /\ ui_pc = "new"
    /\ NoRequests(config)
    /\ ui_pc' = "requests_done"
    /\ called' = Call("setup_requests", None, FALSE)
    /\ UNCHANGED <<config, table, row_count, error, full_beam, inactive,
                   disconnected, auto_update, sort_choices, order_choice>>

\* lines 224-287: setup_requests builds the table and sets row_count
SetupRequestsBuild ==
    /\ ui_pc = "new"
    /\ ~NoRequests(config)
    /\ LET built == RequestRows(config.preemptive_requests, <<>>, 0)
       IN  /\ built.error = ""
           /\ table' = built.table
           /\ row_count' = Some(built.count)
    /\ ui_pc' = "requests_done"
    /\ called' = Call("setup_requests", None, FALSE)
    /\ UNCHANGED <<config, error, full_beam, inactive, disconnected,
                   auto_update, sort_choices, order_choice>>

\* lines 224-244: a group without its pool range raises out of setup_requests,
\* and so out of setup_ui and __init__
SetupRequestsRaise ==
    /\ ui_pc = "new"
    /\ ~NoRequests(config)
    /\ LET built == RequestRows(config.preemptive_requests, <<>>, 0)
       IN  /\ built.error # ""
           /\ table' = built.table
           /\ error' = built.error
    /\ ui_pc' = "failed"
    /\ called' = Call("setup_requests", None, FALSE)
    /\ UNCHANGED <<config, row_count, full_beam, inactive, disconnected,
                   auto_update, sort_choices, order_choice>>

\* lines 289-303 and 405-408
SetupSortsAndFilters ==
    /\ ui_pc = "requests_done"
    /\ row_count # None
    /\ table' = update_all_filters(table, row_count[1], full_beam, inactive,
                                   disconnected)
    /\ ui_pc' = "ready"
    /\ called' = Call("update_all_filters", None, FALSE)
    /\ UNCHANGED <<config, row_count, error, full_beam, inactive, disconnected,
                   auto_update, sort_choices, order_choice>>

\* lines 303 and 407: self.row_count was never assigned
SetupSortsAndFiltersRaise ==
    /\ ui_pc = "requests_done"
    /\ row_count = None
    /\ error' = "AttributeError"
    /\ ui_pc' = "failed"
    /\ called' = Call("update_all_filters", None, FALSE)
    /\ UNCHANGED <<config, table, row_count, full_beam, inactive, disconnected,
                   auto_update, sort_choices, order_choice>>

\* lines 62-73 and 323-340: a channel delivers a value to the item at
\* (pos, column); setText makes the table emit cellChanged
UpdateValue(pos, column, value) ==
    /\ ui_pc = "ready"
    /\ pos \in 1..Len(table)
    /\ table' = handle_item_changed(
           [table EXCEPT ![pos].item[column] =
               update_value(@, StoreTypeOf(column), value)], pos)
    /\ called' = Call("handle_item_changed", Some(table[pos].widget.index), auto_update)
    /\ UNCHANGED <<config, row_count, error, ui_pc, full_beam, inactive,
                   disconnected, auto_update, sort_choices, order_choice>>

\* lines 75-79: a channel connects or disconnects
UpdateConnection(pos, column, connected) ==
    /\ ui_pc = "ready"
    /\ pos \in 1..Len(table)
    /\ table[pos].item[column].connected # connected
    /\ table' = [table EXCEPT ![pos].item[column] = update_connection(@, connected)]
    /\ called' = Call("update_connection", Some(table[pos].widget.index), FALSE)
    /\ UNCHANGED <<config, row_count, error, ui_pc, full_beam, inactive,
                   disconnected, auto_update, sort_choices, order_choice>>

\* line 300: the 'full beam' filter is checked or unchecked
FullBeamStateChanged ==
    /\ ui_pc = "ready"
    /\ full_beam' = ~full_beam
    /\ table' = update_all_filters(table, row_count[1], full_beam', inactive,
                                   disconnected)
    /\ called' = Call("update_all_filters", None, FALSE)
    /\ UNCHANGED <<config, row_count, error, ui_pc, inactive, disconnected,
                   auto_update, sort_choices, order_choice>>

\* line 301
InactiveStateChanged ==
    /\ ui_pc = "ready"
    /\ inactive' = ~inactive
    /\ table' = update_all_filters(table, row_count[1], full_beam, inactive',
                                   disconnected)
    /\ called' = Call("update_all_filters", None, FALSE)
    /\ UNCHANGED <<config, row_count, error, ui_pc, full_beam, disconnected,
                   auto_update, sort_choices, order_choice>>

\* line 302
DisconnectedStateChanged ==
    /\ ui_pc = "ready"
    /\ disconnected' = ~disconnected
    /\ table' = update_all_filters(table, row_count[1], full_beam, inactive,
                                   disconnected')
    /\ called' = Call("update_all_filters", None, FALSE)
    /\ UNCHANGED <<config, row_count, error, ui_pc, full_beam, inactive,
                   auto_update, sort_choices, order_choice>>

\* line 339: the 'auto update' box is checked or unchecked; nothing listens
AutoUpdateToggled ==
    /\ ui_pc = "ready"
    /\ auto_update' = ~auto_update
    /\ called' = Call("none", None, FALSE)
    /\ UNCHANGED <<config, table, row_count, error, ui_pc, full_beam, inactive,
                   disconnected, sort_choices, order_choice>>

\* line 294: another entry of sort_choices is selected
SortChoicesChanged(index) ==
    /\ ui_pc = "ready"
    /\ index # sort_choices
    /\ sort_choices' = index
    /\ table' = gui_table_sort(table, sort_choices', order_choice)
    /\ called' = Call("gui_table_sort", None, TRUE)
    /\ UNCHANGED <<config, row_count, error, ui_pc, full_beam, inactive,
                   disconnected, auto_update, order_choice>>

\* line 295: the other entry of order_choice is selected
OrderChoiceChanged(index) ==
    /\ ui_pc = "ready"
    /\ index # order_choice
    /\ order_choice' = index
    /\ table' = gui_table_sort(table, sort_choices, order_choice')
    /\ called' = Call("gui_table_sort", None, TRUE)
    /\ UNCHANGED <<config, row_count, error, ui_pc, full_beam, inactive,
                   disconnected, auto_update, sort_choices>>

\* line 296: the sort button
SortButtonClicked ==
    /\ ui_pc = "ready"
    /\ table' = gui_table_sort(table, sort_choices, order_choice)
    /\ called' = Call("gui_table_sort", None, TRUE)
    /\ UNCHANGED <<config, row_count, error, ui_pc, full_beam, inactive,
                   disconnected, auto_update, sort_choices, order_choice>>

(***************************************************************************)
(* The specifications.                                                     *)
(***************************************************************************)
vars == <<evVars, bcVars, uiVars>>

InitRange == EvInit /\ BcIdle /\ UiIdle

NextRange ==
    \/ EvLoopOk /\ UNCHANGED <<bcVars, uiVars>>
    \/ EvLoopBad /\ UNCHANGED <<bcVars, uiVars>>
    \/ EvFlush /\ UNCHANGED <<bcVars, uiVars>>
    \/ EvRenderAllow /\ UNCHANGED <<bcVars, uiVars>>
    \/ EvRenderBlock /\ UNCHANGED <<bcVars, uiVars>>

SpecRange == InitRange /\ [][NextRange]_vars

InitBitmask == BcInit /\ EvIdle /\ UiIdle

NextBitmask ==
    \/ BcStart /\ UNCHANGED <<evVars, uiVars>>
    \/ BcLoopSet /\ UNCHANGED <<evVars, uiVars>>
    \/ BcLoopClear /\ UNCHANGED <<evVars, uiVars>>
    \/ BcReturn /\ UNCHANGED <<evVars, uiVars>>

\* the loop runs in one thread and nothing suspends it: it keeps stepping
SpecBitmask == InitBitmask /\ [][NextBitmask]_vars /\ WF_vars(NextBitmask)

\* most groups of a configuration, and the largest pool id
MaxGroups == 2
MaxPool == 2

\* a group of the configuration; req.get(key) of a missing key is None
Requests ==
    [prefix : {"P"}, arbiter_instance : {"A"},
     assertion_pool_start : {None} \cup {Some(n) : n \in 0..MaxPool},
     assertion_pool_end : {None} \cup {Some(n) : n \in 0..MaxPool}]

RECURSIVE RequestLists(_)
RequestLists(n) ==
    IF n = 0 THEN {<<>>}
    ELSE {<<>>} \cup {<<req>> \o reqs : req \in Requests, reqs \in RequestLists(n - 1)}

Configs == [given : BOOLEAN, preemptive_requests : RequestLists(MaxGroups)]

InitBuild == (\E cfg \in Configs : NewDisplay(cfg)) /\ EvIdle /\ BcIdle

\* lines 212-215: setup_ui
NextBuild ==
    \/ SetupRequestsSkip /\ UNCHANGED <<evVars, bcVars>>
    \/ SetupRequestsBuild /\ UNCHANGED <<evVars, bcVars>>
    \/ SetupRequestsRaise /\ UNCHANGED <<evVars, bcVars>>
    \/ SetupSortsAndFilters /\ UNCHANGED <<evVars, bcVars>>
    \/ SetupSortsAndFiltersRaise /\ UNCHANGED <<evVars, bcVars>>

SpecBuild == InitBuild /\ [][NextBuild]_vars

\* the display as setup_ui leaves it for a configuration that builds
Ready(cfg) ==
    LET built == RequestRows(cfg.preemptive_requests, <<>>, 0)
    IN  /\ config = cfg
        /\ table = update_all_filters(built.table, built.count, TRUE, TRUE, TRUE)
        /\ row_count = Some(built.count)
        /\ error = "" /\ ui_pc = "ready"
        /\ full_beam = TRUE /\ inactive = TRUE /\ disconnected = TRUE
        /\ auto_update = FALSE /\ sort_choices = 0 /\ order_choice = 0
        /\ called = Call("update_all_filters", None, FALSE)

\* the filtered display: one group of two pool ids
FilterConfig ==
    [given |-> TRUE,
     preemptive_requests |->
        <<[prefix |-> "P", arbiter_instance |-> "A",
           assertion_pool_start |-> Some(8), assertion_pool_end |-> Some(9)]>>]

\* (column, value) pairs the channels deliver: rate, trans (in tenths), the
\* energy mask and active
FilterValues == {<<4, 120>>, <<5, 10>>, <<6, 0 - 1>>, <<8, 1>>, <<8, 0>>}

\* the columns whose channels connect and disconnect
FilterChannels == {8}

InitFilter == Ready(FilterConfig) /\ EvIdle /\ BcIdle

NextFilter ==
    \/ \E pos \in 1..Len(table), input \in FilterValues :
          UpdateValue(pos, input[1], input[2]) /\ UNCHANGED <<evVars, bcVars>>
    \/ \E pos \in 1..Len(table), column \in FilterChannels, connected \in BOOLEAN :
          UpdateConnection(pos, column, connected) /\ UNCHANGED <<evVars, bcVars>>
    \/ FullBeamStateChanged /\ UNCHANGED <<evVars, bcVars>>
    \/ InactiveStateChanged /\ UNCHANGED <<evVars, bcVars>>
    \/ DisconnectedStateChanged /\ UNCHANGED <<evVars, bcVars>>

SpecFilter == InitFilter /\ [][NextFilter]_vars

\* the sorted display: two groups, three rows
SortConfig ==
    [given |-> TRUE,
     preemptive_requests |->
        <<[prefix |-> "P", arbiter_instance |-> "A",
           assertion_pool_start |-> Some(1), assertion_pool_end |-> Some(2)],
          [prefix |-> "Q", arbiter_instance |-> "A",
           assertion_pool_start |-> Some(10), assertion_pool_end |-> Some(10)]>>]

\* rates whose texts sort unlike their values
SortValues == {<<4, 9>>, <<4, 120>>}

\* sort_choices entries in use: 'Unsorted' and 'Rate'
SortIndexes == {0, 3}

InitSort == Ready(SortConfig) /\ EvIdle /\ BcIdle

NextSort ==
    \/ \E pos \in 1..Len(table), input \in SortValues :
          UpdateValue(pos, input[1], input[2]) /\ UNCHANGED <<evVars, bcVars>>
    \/ AutoUpdateToggled /\ UNCHANGED <<evVars, bcVars>>
    \/ \E index \in SortIndexes :
          SortChoicesChanged(index) /\ UNCHANGED <<evVars, bcVars>>
    \/ \E index \in {0, 1} :
          OrderChoiceChanged(index) /\ UNCHANGED <<evVars, bcVars>>
    \/ SortButtonClicked /\ UNCHANGED <<evVars, bcVars>>

SpecSort == InitSort /\ [][NextSort]_vars

\* the whole display: two groups of one row, every kind of event
DisplayConfig ==
    [given |-> TRUE,
     preemptive_requests |->
        <<[prefix |-> "P", arbiter_instance |-> "A",
           assertion_pool_start |-> Some(3), assertion_pool_end |-> Some(3)],
          [prefix |-> "Q", arbiter_instance |-> "A",
           assertion_pool_start |-> Some(7), assertion_pool_end |-> Some(7)]>>]

\* active comes and goes
DisplayValues == {<<8, 1>>, <<8, 0>>}

DisplayChannels == {8}

\* sort_choices entries in use: 'Unsorted' and 'Active Arbitration'
DisplayIndexes == {0, 7}

Init == Ready(DisplayConfig) /\ EvIdle /\ BcIdle

Next ==
    \/ \E pos \in 1..Len(table), input \in DisplayValues :
          UpdateValue(pos, input[1], input[2]) /\ UNCHANGED <<evVars, bcVars>>
    \/ \E pos \in 1..Len(table), column \in DisplayChannels, connected \in BOOLEAN :
          UpdateConnection(pos, column, connected) /\ UNCHANGED <<evVars, bcVars>>
    \/ FullBeamStateChanged /\ UNCHANGED <<evVars, bcVars>>
    \/ InactiveStateChanged /\ UNCHANGED <<evVars, bcVars>>
    \/ DisconnectedStateChanged /\ UNCHANGED <<evVars, bcVars>>
    \/ AutoUpdateToggled /\ UNCHANGED <<evVars, bcVars>>
    \/ \E index \in DisplayIndexes :
          SortChoicesChanged(index) /\ UNCHANGED <<evVars, bcVars>>
    \/ \E index \in {0, 1} :
          OrderChoiceChanged(index) /\ UNCHANGED <<evVars, bcVars>>
    \/ SortButtonClicked /\ UNCHANGED <<evVars, bcVars>>

Spec == Init /\ [][Next]_vars

(***************************************************************************)
(* The bands of a bitmask, stated without the loop.                        *)
(***************************************************************************)
\* bands i..j (0-based) are a maximal run of bands whose bit is b
IsRun(mask, n, b, i, j) ==
    /\ i <= j
    /\ \A k \in i..j : Bit(mask, k) = b
    /\ (i = 0 \/ Bit(mask, i - 1) # b)
    /\ (j = n - 1 \/ Bit(mask, j + 1) # b)

Runs(mask, n, b) ==
    {r \in (0..(n - 1)) \X (0..(n - 1)) : IsRun(mask, n, b, r[1], r[2])}

\* the interval of a run: (boundaries[i-1] or 0, boundaries[j])
RunInterval(defs, r) ==
    <<IF r[1] = 0 THEN 0 ELSE defs[r[1]], defs[r[2] + 1]>>

RECURSIVE RunIntervals(_, _)
\* the intervals of a set of runs, lowest first
RunIntervals(defs, rs) ==
    IF rs = {} THEN <<>>
    ELSE LET first == CHOOSE r \in rs : \A q \in rs : r[1] <= q[1]
         IN  <<RunInterval(defs, first)>> \o RunIntervals(defs, rs \ {first})

AllowedIntervals == RunIntervals(range_def, Runs(ev_bitmask, Len(range_def), 1))
BlockedIntervals == RunIntervals(range_def, Runs(ev_bitmask, Len(range_def), 0))

\* the two lists together tile (0, boundaries[n-1]]
Tiles(ok, bad, defs) ==
    LET all == {ok[i] : i \in 1..Len(ok)} \cup {bad[i] : i \in 1..Len(bad)}
    IN  /\ Cardinality(all) = Len(ok) + Len(bad)
        /\ \A iv \in all : iv[1] < iv[2]
        /\ \A iv \in all : iv[1] = 0 \/ \E other \in all : other[2] = iv[1]
        /\ \A iv \in all : iv[2] = defs[Len(defs)] \/ \E other \in all : other[1] = iv[2]
        /\ \A iv \in all : \A other \in all :
               iv # other => (iv[2] <= other[1] \/ other[2] <= iv[1])

EvReturned == ev_pc \in {"render", "done"}

\* every line of the tooltip starts with `word`
LinesSay(word) ==
    \A i \in 1..Len(lines) : SubSeq(lines[i], 1, Len(word)) = word

(***************************************************************************)
(* C1, as amended: get_ev_range_tooltip shows the allowed intervals when   *)
(* nothing is blocked, or when something is allowed and the allowed        *)
(* intervals are strictly fewer than the blocked ones; in every other case *)
(* (a tie of non-empty lists, fewer blocked intervals, nothing allowed) it *)
(* shows one 'Block' line per blocked interval.  The tooltip is empty only *)
(* when range_def is empty.                                                *)
(***************************************************************************)
C1_FewerIntervalsShown ==
    ev_pc = "done" =>
        LET nAllowed == Len(AllowedIntervals)
            nBlocked == Len(BlockedIntervals)
        IN  /\ tooltip = Preformatted(JoinLines(lines))
            /\ IF nBlocked = 0 \/ (0 < nAllowed /\ nAllowed < nBlocked)
               THEN Len(lines) = nAllowed /\ LinesSay(AllowWord)
               ELSE Len(lines) = nBlocked /\ LinesSay(BlockWord)
            /\ (lines = <<>>) = (range_def = <<>>)

\* a tie of one allowed and one blocked interval has been rendered
C1_Witness_TieShowsBlock ==
    /\ ev_pc = "done"
    /\ Len(ok_bounds) = 1 /\ Len(bad_bounds) = 1
    /\ Len(lines) = 1 /\ LinesSay(BlockWord)

(***************************************************************************)
(* C1, as claimed: the allowed intervals are shown unless the blocked      *)
(* intervals are strictly fewer; ties show 'Allow' lines and a mask with   *)
(* no allowed band gives an empty block.                                   *)
(***************************************************************************)
C1_Claimed_AllowedUnlessFewerBlocked ==
    ev_pc = "done" =>
        IF Len(BlockedIntervals) < Len(AllowedIntervals)
        THEN Len(lines) = Len(BlockedIntervals) /\ LinesSay(BlockWord)
        ELSE Len(lines) = Len(AllowedIntervals) /\ LinesSay(AllowWord)

(***************************************************************************)
(* C2: once the loop of get_ev_range_tooltip is over, ok_bounds and        *)
(* bad_bounds are the intervals of the maximal runs of set and of clear    *)
(* bits among bits 0..n-1 of the bitmask, lowest first; together they tile *)
(* (0, boundaries[n-1]]; the bits at n and above play no part.             *)
(***************************************************************************)
C2_BoundsAreMaximalRuns ==
    EvReturned =>
        /\ ok_bounds = AllowedIntervals
        /\ bad_bounds = BlockedIntervals
        /\ ok_bounds = RunIntervals(range_def,
               Runs(ev_bitmask % (2 ^ Len(range_def)), Len(range_def), 1))
        /\ range_def # <<>> => Tiles(ok_bounds, bad_bounds, range_def)

\* a mask with bits above the boundaries, whose bands 1 and 2 merged into one
C2_Witness_MergedRun ==
    /\ EvReturned
    /\ Len(range_def) = 3
    /\ ev_bitmask >= 2 ^ Len(range_def)
    /\ ok_bounds = <<<<range_def[1], range_def[3]>>>>
    /\ bad_bounds = <<<<0, range_def[1]>>>>

(***************************************************************************)
(* C8: get_tooltip_for_bc_bitmask returns, for every bitmask >= 0, the row *)
(* of class 0 followed by the row of class k+1 for each set bit k, in      *)
(* ascending k, and nothing else; and it does return.                      *)
(***************************************************************************)
RECURSIVE BitWidth(_)
\* how many binary digits a mask >= 0 has
BitWidth(mask) == IF mask < 2 THEN 1 ELSE 1 + BitWidth(mask \div 2)

SetBits(mask) == {k \in 0..(BitWidth(mask) - 1) : Bit(mask, k) = 1}

RECURSIVE ClassRows(_)
ClassRows(classes) ==
    IF classes = {} THEN <<>>
    ELSE LET least == CHOOSE c \in classes : \A d \in classes : c <= d
         IN  <<GetTableRow(least)>> \o ClassRows(classes \ {least})

C8_BitmaskTableRows ==
    /\ [](bc_pc = "done" =>
            bc_table = ClassRows({0} \cup {k + 1 : k \in SetBits(bc_bitmask)}))
    /\ <>(bc_pc = "done")

\* 0b101 has given the classes 0, 1 and 3
C8_Witness_FiveGivesThreeRows ==
    /\ bc_pc = "done"
    /\ bc_bitmask = 5
    /\ bc_table = <<GetTableRow(0), GetTableRow(1), GetTableRow(3)>>

(***************************************************************************)
(* Rows, told apart by the insertion index their widget was built with.    *)
(***************************************************************************)
IndexAt(tbl, pos) == tbl[pos].widget.index

PosOf(tbl, n) == CHOOSE pos \in 1..Len(tbl) : IndexAt(tbl, pos) = n

RowOf(tbl, n) == tbl[PosOf(tbl, n)]

Indexes(tbl) == {IndexAt(tbl, pos) : pos \in 1..Len(tbl)}

(***************************************************************************)
(* C3: update_filter hides a row exactly when                              *)
(*   (hide_full_beam and rate >= 120 and transmission >= 1 and             *)
(*    energy_range_count >= 32)                                            *)
(*   or (hide_inactive and active = 0)                                     *)
(*   or (hide_disconnected and the row is disconnected),                   *)
(* and shows it otherwise: after a value reaches a row, that row is hidden *)
(* or shown so, and after a filter box changes, every row is.              *)
(***************************************************************************)
ClaimedHide(row, hide_full_beam, hide_inactive, hide_disconnected) ==
    \/ /\ hide_full_beam
       /\ IntVal(row.item[4].text) >= 120
       /\ FloatVal(row.item[5].text) >= 10
       /\ IntVal(row.item[6].text) >= 32
    \/ hide_inactive /\ IntVal(row.item[8].text) = 0
    \/ hide_disconnected /\ ~row.item[8].connected

C3_FilterHidesExactly ==
    /\ called.name = "handle_item_changed" =>
          RowOf(table, called.row[1]).hidden
              = ClaimedHide(RowOf(table, called.row[1]),
                            full_beam, inactive, disconnected)
    /\ called.name = "update_all_filters" =>
          \A pos \in 1..Len(table) :
              table[pos].hidden
                  = ClaimedHide(table[pos], full_beam, inactive, disconnected)

\* update_filter has just hidden an active, connected row that asks for full beam
C3_Witness_FullBeamRowHidden ==
    /\ called.name = "handle_item_changed"
    /\ full_beam /\ inactive /\ disconnected
    /\ LET row == RowOf(table, called.row[1])
       IN  /\ row.item[4].text = IntStr(120)
           /\ row.item[5].text = FloatStr(10)
           /\ row.item[6].text = IntStr(32)
           /\ row.item[8].text = IntStr(1)
           /\ row.item[8].connected
           /\ row.hidden

(***************************************************************************)
(* C9: update_filter reads a row's connection from the item of the last    *)
(* entry of item_info_list, 'active', alone: the connection of any other   *)
(* item of the row does not change whether the row is hidden, and the      *)
(* connection of the 'active' item does.                                   *)
(***************************************************************************)
OtherConnections(row, flags) ==
    [row EXCEPT !.item =
        [column \in 1..(ncols - 1) |->
            IF column \in DOMAIN flags
            THEN [row.item[column] EXCEPT !.connected = flags[column]]
            ELSE row.item[column]]]

C9_ConnectionReadFromLastItem ==
    /\ item_info_list[Len(item_info_list)].name = "active"
    /\ \A pos \in 1..Len(table) :
          /\ \A flags \in [2..(ncols - 2) -> BOOLEAN] :
                update_filter([table EXCEPT ![pos] = OtherConnections(@, flags)],
                              pos, full_beam, inactive, disconnected)[pos].hidden
                = update_filter(table, pos, full_beam, inactive,
                                disconnected)[pos].hidden
          /\ update_filter(table, pos, FALSE, FALSE, TRUE)[pos].hidden
                = ~table[pos].item[ncols - 1].connected

\* update_filter has just shown a row under the 'disconnected' filter: its
\* 'active' item is connected and no other item of it is
C9_Witness_ShownWithOthersDisconnected ==
    /\ called.name = "handle_item_changed"
    /\ disconnected
    /\ LET row == RowOf(table, called.row[1])
       IN  /\ row.item[8].connected
           /\ \A column \in 2..7 : ~row.item[column].connected
           /\ ~row.hidden

(***************************************************************************)
(* C4, as amended: a sort with 'Unsorted' selected leaves the rows in      *)
(* ascending insertion_index order when the direction selector says        *)
(* ascending, and in descending insertion_index order when it says         *)
(* descending, whatever was sorted before.                                 *)
(***************************************************************************)
InsertionOrder(tbl) ==
    \A pos \in 1..Len(tbl) : IndexAt(tbl, pos) = pos - 1

ReverseInsertionOrder(tbl) ==
    \A pos \in 1..Len(tbl) : IndexAt(tbl, pos) = Len(tbl) - pos

C4_UnsortedFollowsDirection ==
    called.sorted /\ sort_choices = 0 =>
        IF order_choice = 0 THEN InsertionOrder(table)
        ELSE ReverseInsertionOrder(table)

\* a sort with 'Unsorted' and 'descending' has left the rows in reverse
\* insertion order
C4_Witness_UnsortedDescending ==
    /\ called.sorted
    /\ sort_choices = 0 /\ order_choice = 1
    /\ Len(table) > 1
    /\ ReverseInsertionOrder(table)

(***************************************************************************)
(* C4, as claimed: a sort with 'Unsorted' selected leaves the rows in      *)
(* ascending insertion_index order, whatever the direction selector says.  *)
(***************************************************************************)
C4_Claimed_UnsortedRestoresInsertionOrder ==
    called.sorted /\ sort_choices = 0 => InsertionOrder(table)

(***************************************************************************)
(* C5, as amended: after a sort by a field the rows are in the order of    *)
(* that field's values, ascending or descending as selected, and two rows  *)
(* whose values are equal keep the order they had before the sort (not the *)
(* order of their insertion_index): the result depends on the order the    *)
(* table had before.                                                       *)
(***************************************************************************)
FieldValue(row, column) == get_value(DataTypeOf(column), row.item[column].text)

ValueLess(column, a, b) ==
    IF DataTypeOf(column) = "str" THEN StrLess(a, b) ELSE a < b

InFieldOrder(tbl, column, ascending) ==
    \A i \in 1..Len(tbl) : \A j \in (i + 1)..Len(tbl) :
        IF ascending
        THEN ~ValueLess(column, FieldValue(tbl[j], column), FieldValue(tbl[i], column))
        ELSE ~ValueLess(column, FieldValue(tbl[i], column), FieldValue(tbl[j], column))

Tie(tbl, column, i, j) ==
    /\ ~ValueLess(column, FieldValue(tbl[i], column), FieldValue(tbl[j], column))
    /\ ~ValueLess(column, FieldValue(tbl[j], column), FieldValue(tbl[i], column))

TiesKeepOrder(before, after, column) ==
    \A i \in 1..Len(after) : \A j \in (i + 1)..Len(after) :
        Tie(after, column, i, j) =>
            PosOf(before, IndexAt(after, i)) < PosOf(before, IndexAt(after, j))

C5_SortIsStable ==
    [][called'.sorted /\ sort_choices' # 0 =>
          /\ Indexes(table') = Indexes(table) /\ Len(table') = Len(table)
          /\ InFieldOrder(table', sort_choices' + 1, order_choice' = 0)
          /\ TiesKeepOrder(table, table', sort_choices' + 1)]_vars

\* a sort upwards by rate has left two rows of equal rate against their
\* insertion order
C5_Witness_TieAgainstInsertionOrder ==
    /\ called.sorted
    /\ sort_choices = 3 /\ order_choice = 0
    /\ InFieldOrder(table, 4, TRUE)
    /\ \E i \in 1..Len(table) : \E j \in (i + 1)..Len(table) :
          Tie(table, 4, i, j) /\ IndexAt(table, i) > IndexAt(table, j)

(***************************************************************************)
(* C5, as claimed: after a sort by a field, rows of equal value are in     *)
(* insertion_index order (read generously: upwards, or downwards when the  *)
(* sort is descending), so that the order before the sort plays no part.   *)
(***************************************************************************)
TiesByInsertion(tbl, column, upwards) ==
    \A i \in 1..Len(tbl) : \A j \in (i + 1)..Len(tbl) :
        Tie(tbl, column, i, j) =>
            IF upwards THEN IndexAt(tbl, i) < IndexAt(tbl, j)
            ELSE IndexAt(tbl, i) > IndexAt(tbl, j)

C5_Claimed_TiesByInsertionIndex ==
    called.sorted /\ sort_choices # 0 =>
        \/ TiesByInsertion(table, sort_choices + 1, TRUE)
        \/ order_choice = 1 /\ TiesByInsertion(table, sort_choices + 1, FALSE)

(***************************************************************************)
(* C10: update_connection changes the connected flag of one item and       *)
(* nothing else; a sort changes the order of the rows and nothing else;    *)
(* so a row is hidden or shown only by a step that runs update_filter.     *)
(***************************************************************************)
SameOrder(before, after) ==
    /\ Len(after) = Len(before)
    /\ \A pos \in 1..Len(before) : IndexAt(after, pos) = IndexAt(before, pos)

SameRows(before, after) ==
    /\ Len(after) = Len(before)
    /\ Indexes(after) = Indexes(before)
    /\ \A n \in Indexes(before) : RowOf(after, n) = RowOf(before, n)

OnlyConnectedChanged(before, after) ==
    /\ SameOrder(before, after)
    /\ \A pos \in 1..Len(before) :
          /\ after[pos].hidden = before[pos].hidden
          /\ after[pos].widget = before[pos].widget
          /\ \A column \in 1..(ncols - 1) :
                after[pos].item[column].text = before[pos].item[column].text
    /\ Cardinality({at \in (1..Len(before)) \X (1..(ncols - 1)) :
          after[at[1]].item[at[2]].connected
              # before[at[1]].item[at[2]].connected}) = 1

C10_OnlyFiltersChangeVisibility ==
    [][/\ called'.name = "update_connection" => OnlyConnectedChanged(table, table')
       /\ called'.name = "gui_table_sort" => SameRows(table, table')
       /\ (\E n \in Indexes(table) : RowOf(table', n).hidden # RowOf(table, n).hidden)
            => called'.name \in {"handle_item_changed", "update_all_filters"}]_vars

\* a sort has just run on rows of which one is hidden, one is shown and one
\* is connected, and has left them out of insertion order
C10_Witness_SortedConnectedFiltered ==
    /\ called.name = "gui_table_sort"
    /\ ~InsertionOrder(table)
    /\ \E pos \in 1..Len(table) : table[pos].hidden
    /\ \E pos \in 1..Len(table) : ~table[pos].hidden
    /\ \E pos \in 1..Len(table) : table[pos].item[8].connected

(***************************************************************************)
(* C6, as claimed: with no configuration (none given, or none with a       *)
(* 'preemptive_requests' entry) setup_requests and setup_sorts_and_filters *)
(* raise no error and leave a table of no rows.                            *)
(***************************************************************************)
C6_Claimed_NoConfigNoError ==
    NoRequests(config) /\ ui_pc # "idle" => error = "" /\ table = <<>>

(***************************************************************************)
(* C7, as claimed: a group that lacks a pool-range key, or whose           *)
(* pool_start is above its pool_end, gives no rows and no error: the rows  *)
(* of the other groups are built, numbered 0, 1, 2, ... and row_count is   *)
(* set.                                                                    *)
(***************************************************************************)
WellFormed(req) ==
    /\ req.assertion_pool_start # None /\ req.assertion_pool_end # None
    /\ req.assertion_pool_start[1] <= req.assertion_pool_end[1]

RECURSIVE ClaimedRowCount(_)
ClaimedRowCount(reqs) ==
    IF reqs = <<>> THEN 0
    ELSE (IF WellFormed(Head(reqs))
          THEN Head(reqs).assertion_pool_end[1] - Head(reqs).assertion_pool_start[1] + 1
          ELSE 0) + ClaimedRowCount(Tail(reqs))

C7_Claimed_MalformedGroupSkipped ==
    ~NoRequests(config) /\ ui_pc \in {"requests_done", "ready", "failed"} =>
        /\ error = ""
        /\ row_count = Some(ClaimedRowCount(config.preemptive_requests))
        /\ Len(table) = ClaimedRowCount(config.preemptive_requests)
        /\ InsertionOrder(table)

====
